---- MODULE Spec2Model ----
(***************************************************************************)
(* Resume Shortlister (src/app.py, src/models.py): the Analyze button      *)
(* handler, parse_resume, analyze_with_gemini and the CandidateAnalysis    *)
(* schema, as a state machine.                                             *)
(*                                                                         *)
(* Representation of Python values:                                        *)
(*   - a file name and the job description are sequences of characters;    *)
(*   - every other text (resume text, model response, record fields) is a  *)
(*     sequence of tokens, each a record: [c |-> s] is the literal chunk s *)
(*     and [json |-> v] is the serialisation of the JSON value v, so that  *)
(*     concatenation, strip, replace and "contains" are sequence           *)
(*     operations;                                                         *)
(*   - a JSON value is a tagged record (JStr, JInt, JBool, JNull, JObj,    *)
(*     JArr); a Python dict is a function from its keys.                   *)
(***************************************************************************)
EXTENDS Integers, Sequences, FiniteSets, TLC

\* Largest number of files uploaded in one run.
MaxFiles == 3

VARIABLES
    jd_input,       \* st.text_area: the job description typed so far
    resume_files,   \* st.file_uploader: the uploaded files, in upload order
    pc,             \* position of the Analyze handler
    i,              \* 1-based index of the file the batch loop is at
    resume_text,    \* the loop's resume_text (text of file i)
    analysis,       \* the loop's analysis (result of analyze_with_gemini)
    outcome,        \* what the model service did on the call for file i
    all_analyses,   \* the accumulated results
    ranked_candidates, \* the rendered ranking
    rendered,       \* whether the results section has been rendered
    calls,          \* the model calls issued so far (seen by the service)
    reads,          \* indices of the files read and extracted so far
    errors,         \* the st.error diagnostics shown so far
    escaped         \* the exception that left the handler, if any

vars == <<jd_input, resume_files, pc, i, resume_text, analysis, outcome,
          all_analyses, ranked_candidates, rendered, calls, reads, errors,
          escaped>>

(***************************************************************************)
(* Text helpers (str methods used by the program)                          *)
(***************************************************************************)

\* Characters str.strip() removes.
WhitespaceChars == {" ", "\n", "\t"}

\* One-chunk text literal.
T(s) == <<[c |-> s]>>

IsWsTok(tok) == "c" \in DOMAIN tok /\ tok.c \in WhitespaceChars

RECURSIVE LStripChars(_)
LStripChars(s) ==
    IF s # <<>> /\ Head(s) \in WhitespaceChars THEN LStripChars(Tail(s)) ELSE s

RECURSIVE RStripChars(_)
RStripChars(s) ==
    IF s # <<>> /\ s[Len(s)] \in WhitespaceChars
    THEN RStripChars(SubSeq(s, 1, Len(s) - 1)) ELSE s

\* A mutant of StripChars: no stripping at all.
StripCharsIdentity(s) == s

\* str.strip() on a character sequence (jd_input.strip(), line 117).
StripChars(s) == RStripChars(LStripChars(s))

RECURSIVE LStripToks(_)
LStripToks(s) ==
    IF s # <<>> /\ IsWsTok(Head(s)) THEN LStripToks(Tail(s)) ELSE s

RECURSIVE RStripToks(_)
RStripToks(s) ==
    IF s # <<>> /\ IsWsTok(s[Len(s)])
    THEN RStripToks(SubSeq(s, 1, Len(s) - 1)) ELSE s

\* str.strip() on a token text (response.text.strip(), line 71).
StripToks(s) == RStripToks(LStripToks(s))

\* str.replace(old, "") for a one-chunk old: every occurrence is removed.
RemoveChunk(s, old) == SelectSeq(s, LAMBDA tok : tok # [c |-> old])

\* Lower-casing of the letters of the two extensions, and the suffix match
\* that ignores case (used by the mutant of parse_resume).
Lower(ch) ==
    CASE ch = "P" -> "p" [] ch = "D" -> "d" [] ch = "F" -> "f"
      [] ch = "O" -> "o" [] ch = "C" -> "c" [] ch = "X" -> "x"
      [] OTHER -> ch

EndsWithIgnoreCase(s, suffix) ==
    /\ Len(s) >= Len(suffix)
    /\ \A k \in 1..Len(suffix) :
          Lower(s[Len(s) - Len(suffix) + k]) = Lower(suffix[k])

\* str.endswith (lines 54, 57): case-sensitive.
EndsWith(s, suffix) ==
    /\ Len(s) >= Len(suffix)
    /\ SubSeq(s, Len(s) - Len(suffix) + 1, Len(s)) = suffix

\* sep.join(parts) (lines 56, 59).
RECURSIVE Join(_, _)
Join(parts, sep) ==
    IF parts = <<>> THEN <<>>
    ELSE IF Len(parts) = 1 THEN parts[1]
    ELSE parts[1] \o sep \o Join(Tail(parts), sep)

\* Whether text `sub` occurs in text `s` (Python's `sub in s`).
Contains(s, sub) ==
    \E k \in 0..(Len(s) - Len(sub)) : SubSeq(s, k + 1, k + Len(sub)) = sub

(***************************************************************************)
(* Document text extraction                                                *)
(***************************************************************************)

PdfSuffix == <<".", "p", "d", "f">>
DocxSuffix == <<".", "d", "o", "c", "x">>

\* An uploaded file: its name and its bytes.  The bytes are abstracted to
\* what the document libraries make of them: corrupt (opening the document
\* raises) or the texts of its pages / paragraphs, in document order.
File(name, corrupt, parts) ==
    [name |-> name, bytes |-> [corrupt |-> corrupt, parts |-> parts]]

\* The files the runs upload.  The uploader's type filter accepts the pdf and
\* docx extensions whatever their case, so "c.PDF" passes it.
UploadableFiles == <<
    File(<<"a", ".", "p", "d", "f">>, FALSE, <<T("x"), T("y")>>),
    File(<<"b", ".", "d", "o", "c", "x">>, FALSE, <<T("x"), T("y")>>),
    File(<<"g", ".", "p", "d", "f">>, FALSE, <<T("z")>>),
    File(<<"c", ".", "P", "D", "F">>, FALSE, <<T("x")>>),
    File(<<"d", ".", "d", "o", "c", "x">>, TRUE, <<>>),
    File(<<"e", ".", "p", "d", "f">>, FALSE, <<<<>>, <<>>>>) >>

\* st.error(f"Error parsing {filename} : {e}") (line 62).
ParseErrorMsg(filename) == [msg |-> "Error parsing", file |-> filename]

\* A mutant of parse_resume: the extension is matched ignoring case.
parse_resume_nocase(file_bytes, filename) ==
    IF EndsWithIgnoreCase(filename, PdfSuffix)
    THEN IF file_bytes.corrupt
         THEN [text |-> <<>>, errors |-> <<ParseErrorMsg(filename)>>]
         ELSE [text |-> Join(file_bytes.parts, <<>>), errors |-> <<>>]
    ELSE IF EndsWithIgnoreCase(filename, DocxSuffix)
    THEN IF file_bytes.corrupt
         THEN [text |-> <<>>, errors |-> <<ParseErrorMsg(filename)>>]
         ELSE [text |-> Join(file_bytes.parts, T("\n")), errors |-> <<>>]
    ELSE [text |-> <<>>, errors |-> <<>>]

\* parse_resume (lines 51-63): the text, and the diagnostics it showed.  An
\* exception of the document library is caught: text keeps its initial "".
parse_resume(file_bytes, filename) ==
    IF EndsWith(filename, PdfSuffix)
    THEN IF file_bytes.corrupt
         THEN [text |-> <<>>, errors |-> <<ParseErrorMsg(filename)>>]
         ELSE [text |-> Join(file_bytes.parts, <<>>), errors |-> <<>>]
    ELSE IF EndsWith(filename, DocxSuffix)
    THEN IF file_bytes.corrupt
         THEN [text |-> <<>>, errors |-> <<ParseErrorMsg(filename)>>]
         ELSE [text |-> Join(file_bytes.parts, T("\n")), errors |-> <<>>]
    ELSE [text |-> <<>>, errors |-> <<>>]

(***************************************************************************)
(* JSON values and the model service                                       *)
(***************************************************************************)

JStr(s) == [t |-> "str", s |-> s]
JInt(n) == [t |-> "int", n |-> n]
JBool(b) == [t |-> "bool", b |-> b]
JNull == [t |-> "null"]
JObj(o) == [t |-> "obj", o |-> o]
JArr == [t |-> "arr"]

\* The serialisation of JSON value v inside a response text: one token, so
\* the code-fence markers line 71 removes are those around the document.
Doc(v) == <<[json |-> v]>>

\* The code-fence markers of line 71 (three backquotes, written here as
\* three quotes: the lexer rejects a backquote inside a string).
FenceJson == "'''json"
Fence == "'''"

\* json.loads (line 72): whitespace around the document is accepted, anything
\* else around it (or no document at all) is a JSONDecodeError.
json_loads(text) ==
    LET body == StripToks(text) IN
    IF Len(body) = 1 /\ "json" \in DOMAIN body[1]
    THEN [exc |-> "none", value |-> body[1].json]
    ELSE [exc |-> "JSONDecodeError", value |-> JNull]

\* dict.get(key) / dict.get(key, default) (lines 74, 76, 77).
DictGet(d, key, default) == IF key \in DOMAIN d THEN d[key] ELSE default

\* str(v) as an f-string interpolates it (line 78): a string is itself, None
\* is "None", anything else its repr.
PyStr(v) ==
    CASE v.t = "str" -> v.s
      [] v.t = "null" -> T("None")
      [] OTHER -> <<[repr |-> v]>>

(***************************************************************************)
(* CandidateAnalysis (src/models.py)                                       *)
(***************************************************************************)

\* Field(ge=0, le=100) of score.
MinScore == 0
MaxScore == 100

\* The value of `analysis` while no record is held.
NoRecord == [none |-> TRUE]

\* A mutant of ScoreInRange: the lower bound is not checked.
ScoreInRangeNoLower(n) == n <= MaxScore

\* The ge/le constraint of score (models.py line 6).
ScoreInRange(n) == n >= MinScore /\ n <= MaxScore

\* A mutant of NameOk: the name must also be non-empty (min_length=1).
NameOkNonEmpty(v) == v.t = "str" /\ v.s # <<>>

\* The constraint on candidate_name (models.py line 5): a str, nothing more.
NameOk(v) == v.t = "str"

\* A mutant of CandidateAnalysis: is_recommended is recomputed from the score.
CandidateAnalysisCoupled(kwargs) ==
    IF /\ {"candidate_name", "score", "summary", "reasoning", "is_recommended"}
            \subseteq DOMAIN kwargs
       /\ NameOk(kwargs["candidate_name"])
       /\ kwargs["score"].t = "int" /\ ScoreInRange(kwargs["score"].n)
       /\ kwargs["summary"].t = "str"
       /\ kwargs["reasoning"].t = "str"
       /\ kwargs["is_recommended"].t = "bool"
    THEN [exc |-> "none",
          value |-> [candidate_name |-> kwargs["candidate_name"].s,
                     score |-> kwargs["score"].n,
                     summary |-> kwargs["summary"].s,
                     reasoning |-> kwargs["reasoning"].s,
                     is_recommended |-> kwargs["score"].n >= 70]]
    ELSE [exc |-> "ValidationError", value |-> NoRecord]

\* CandidateAnalysis(**kwargs) (models.py lines 4-9): the five fields are
\* required and typed, score is range-checked, extra keys are ignored.  The
\* inputs of this model hold no value that pydantic would coerce (a numeric
\* string for score, say), so a type either matches or fails.
CandidateAnalysis(kwargs) ==
    IF /\ {"candidate_name", "score", "summary", "reasoning", "is_recommended"}
            \subseteq DOMAIN kwargs
       /\ NameOk(kwargs["candidate_name"])
       /\ kwargs["score"].t = "int" /\ ScoreInRange(kwargs["score"].n)
       /\ kwargs["summary"].t = "str"
       /\ kwargs["reasoning"].t = "str"
       /\ kwargs["is_recommended"].t = "bool"
    THEN [exc |-> "none",
          value |-> [candidate_name |-> kwargs["candidate_name"].s,
                     score |-> kwargs["score"].n,
                     summary |-> kwargs["summary"].s,
                     reasoning |-> kwargs["reasoning"].s,
                     is_recommended |-> kwargs["is_recommended"].b]]
    ELSE [exc |-> "ValidationError", value |-> NoRecord]

(***************************************************************************)
(* analyze_with_gemini (src/app.py lines 65-93)                            *)
(***************************************************************************)

\* PROMPT_TEMPLATE.format(...) (line 67): the fixed template with its two
\* slots filled, nothing escaped.
BuildPrompt(job_description, text) ==
    [template |-> "PROMPT_TEMPLATE", job_description |-> job_description,
     resume_text |-> text]

\* What the model service does on one call: generate_content raises exc
\* ("raise"), or returns a response whose .text raises ValueError because the
\* response holds no candidate ("blocked"), or returns a response with text.
Raise(exc) == [kind |-> "raise", exc |-> exc]
Blocked == [kind |-> "blocked"]
Text(text) == [kind |-> "text", text |-> text]
NoOutcome == [kind |-> "none"]

\* response.text (lines 71, 86).
ResponseText(out) ==
    IF out.kind = "text" THEN [exc |-> "none", text |-> out.text]
    ELSE [exc |-> "ValueError", text |-> <<>>]

\* A mutant of NormalizeReasoning: Gaps is rendered before Strengths.
NormalizeReasoningSwapped(response_json) ==
    IF "reasoning" \in DOMAIN response_json /\ response_json["reasoning"].t = "obj"
    THEN LET reasoning_dict == response_json["reasoning"].o
             strengths == DictGet(reasoning_dict, "Strengths", JStr(T("N/A")))
             gaps == DictGet(reasoning_dict, "Gaps", JStr(T("N/A")))
         IN [response_json EXCEPT !["reasoning"] =
                JStr(T("\n**Gaps:**\n") \o PyStr(gaps)
                     \o T("\n\n**Strengths:**\n") \o PyStr(strengths))]
    ELSE response_json

\* Lines 74-78: a reasoning that is a dict becomes one markdown string.
NormalizeReasoning(response_json) ==
    IF "reasoning" \in DOMAIN response_json /\ response_json["reasoning"].t = "obj"
    THEN LET reasoning_dict == response_json["reasoning"].o
             strengths == DictGet(reasoning_dict, "Strengths", JStr(T("N/A")))
             gaps == DictGet(reasoning_dict, "Gaps", JStr(T("N/A")))
         IN [response_json EXCEPT !["reasoning"] =
                JStr(T("\n**Strengths:**\n") \o PyStr(strengths)
                     \o T("\n\n**Gaps:**\n") \o PyStr(gaps))]
    ELSE response_json

\* The try body (lines 70-80): the exception it ends with ("none": it
\* returned value), and whether `response` was bound when it ended.
TryBody(out) ==
    IF out.kind = "raise"
    THEN [exc |-> out.exc, bound |-> FALSE, value |-> NoRecord]
    ELSE IF ResponseText(out).exc # "none"
    THEN [exc |-> ResponseText(out).exc, bound |-> TRUE, value |-> NoRecord]
    ELSE LET response_text ==
                 RemoveChunk(RemoveChunk(StripToks(ResponseText(out).text),
                                         FenceJson), Fence)
             loaded == json_loads(response_text)
         IN IF loaded.exc # "none"
            THEN [exc |-> loaded.exc, bound |-> TRUE, value |-> NoRecord]
            ELSE IF loaded.value.t # "obj"
            THEN [exc |-> "AttributeError", bound |-> TRUE, value |-> NoRecord]
            ELSE LET built == CandidateAnalysis(NormalizeReasoning(loaded.value.o))
                 IN [exc |-> built.exc, bound |-> TRUE, value |-> built.value]

\* except (json.JSONDecodeError, TypeError, KeyError) (line 82).
FormatErrors == {"JSONDecodeError", "TypeError", "KeyError"}

\* str(e) (lines 83, 89, 92): the exception's message, whose wording the
\* program never inspects: one opaque chunk, whatever the exception.
StrOfException(exc) == <<[c |-> "str(e)"]>>

\* The st.error diagnostics of lines 83 and 89.
FormatErrorMsg(exc) ==
    [msg |-> "Error parsing Gemini's JSON response", detail |-> StrOfException(exc)]
UnexpectedErrorMsg(exc) ==
    [msg |-> "An unexpected error occurred during analysis", detail |-> StrOfException(exc)]

\* The record of lines 84-87.
FormatFallback(raw) ==
    [candidate_name |-> T("Unknown/Error"), score |-> 0,
     summary |-> T("Analysis failed due to response format error !"),
     reasoning |-> T("Failed to parse model output, raw response : ") \o raw,
     is_recommended |-> FALSE]

\* The record of lines 90-93.
UnexpectedFallback(exc) ==
    [candidate_name |-> T("Unknown/Error"), score |-> 0,
     summary |-> T("Analysis failed !"),
     reasoning |-> T("An unexpected error occurred : ") \o StrOfException(exc),
     is_recommended |-> FALSE]

\* analyze_with_gemini: the record it returns (raised = "none") or the
\* exception that leaves it, and the diagnostics it showed.  The first
\* handler reads response.text again: when generate_content itself raised a
\* format error, `response` is unbound there and UnboundLocalError leaves
\* the function.
analyze_with_gemini(out) ==
    LET r == TryBody(out) IN
    IF r.exc = "none"
    THEN [raised |-> "none", value |-> r.value, errors |-> <<>>]
    ELSE IF r.exc \in FormatErrors
    THEN IF ~r.bound
         THEN [raised |-> "UnboundLocalError", value |-> NoRecord,
               errors |-> <<FormatErrorMsg(r.exc)>>]
         ELSE IF ResponseText(out).exc # "none"
         THEN [raised |-> ResponseText(out).exc, value |-> NoRecord,
               errors |-> <<FormatErrorMsg(r.exc)>>]
         ELSE [raised |-> "none", value |-> FormatFallback(ResponseText(out).text),
               errors |-> <<FormatErrorMsg(r.exc)>>]
    ELSE [raised |-> "none", value |-> UnexpectedFallback(r.exc),
          errors |-> <<UnexpectedErrorMsg(r.exc)>>]

\* A response object with the five keys of the requested format.
Answer(name, score, reasoning, recommended) ==
    JObj([candidate_name |-> name, score |-> score, summary |-> JStr(T("fit")),
          reasoning |-> reasoning, is_recommended |-> recommended])

Markdown == JStr(T("**Strengths:**\n- s\n\n**Gaps:**\n- g"))

\* The behaviours of the model service the runs draw from.
Outcomes == <<
    \* fenced, well formed
    Text(T(FenceJson) \o T("\n")
         \o Doc(Answer(JStr(T("Ann")), JInt(90), Markdown, JBool(TRUE)))
         \o T("\n") \o T(Fence)),
    \* bare, with whitespace around it
    Text(T(" ") \o Doc(Answer(JStr(T("Bob")), JInt(40), Markdown, JBool(FALSE)))
         \o T("\n")),
    \* reasoning as an object
    Text(Doc(Answer(JStr(T("Cyd")), JInt(85),
                    JObj([Strengths |-> JStr(T("A")), Gaps |-> JStr(T("B"))]),
                    JBool(TRUE)))),
    \* reasoning as an object without Gaps
    Text(Doc(Answer(JStr(T("Dee")), JInt(50),
                    JObj([Strengths |-> JStr(T("A"))]), JBool(FALSE)))),
    \* recommended against the 70-point rule
    Text(Doc(Answer(JStr(T("Eve")), JInt(50), Markdown, JBool(TRUE)))),
    \* empty name; reasoning as an object without Strengths
    Text(Doc(Answer(JStr(<<>>), JInt(100), JObj([Gaps |-> JStr(T("B"))]), JBool(TRUE)))),
    \* prose around the document: not JSON
    Text(T("Sure, here it is:")
         \o Doc(Answer(JStr(T("Fay")), JInt(60), Markdown, JBool(FALSE)))),
    \* score above and below the range
    Text(Doc(Answer(JStr(T("Gus")), JInt(101), Markdown, JBool(TRUE)))),
    Text(Doc(Answer(JStr(T("Hal")), JInt(-1), Markdown, JBool(FALSE)))),
    \* a required key missing
    Text(Doc(JObj([candidate_name |-> JStr(T("Ida")), score |-> JInt(75),
                   summary |-> JStr(T("fit")), reasoning |-> Markdown]))),
    \* mistyped fields
    Text(Doc(Answer(JStr(T("Jon")), JStr(T("high")), Markdown, JBool(TRUE)))),
    Text(Doc(Answer(JNull, JInt(30), Markdown, JBool(FALSE)))),
    \* valid JSON that is no object
    Text(Doc(JArr)),
    \* the call fails
    Raise("ConnectionError"),
    Raise("TypeError"),
    Raise("KeyError"),
    \* the response carries no text
    Blocked >>

(***************************************************************************)
(* sorted(all_analyses, key=lambda x: x.score, reverse=True) (line 140)     *)
(***************************************************************************)

Reverse(s) == [k \in 1..Len(s) |-> s[Len(s) + 1 - k]]

\* x goes behind every element whose score is not larger: a stable insert.
RECURSIVE InsertByScore(_, _)
InsertByScore(s, x) ==
    IF s = <<>> THEN <<x>>
    ELSE IF Head(s).score <= x.score THEN <<Head(s)>> \o InsertByScore(Tail(s), x)
    ELSE <<x>> \o s

\* list.sort ascending by score: stable.
RECURSIVE StableSortAscending(_)
StableSortAscending(s) ==
    IF s = <<>> THEN <<>>
    ELSE InsertByScore(StableSortAscending(SubSeq(s, 1, Len(s) - 1)), s[Len(s)])

\* A mutant of Sorted: the ascending order is reversed once, which turns
\* ties around.
SortedReversedOnce(s) == Reverse(StableSortAscending(s))

\* sorted(..., reverse=True): the list is reversed, sorted ascending (stable)
\* and reversed again, which keeps equal scores in their original order.
Sorted(s) == Reverse(StableSortAscending(Reverse(s)))

(***************************************************************************)
(* The page: the two inputs and the Analyze button handler                 *)
(***************************************************************************)

\* Job descriptions the text area can hold.
JobDescriptions == { <<>>, <<" ", "\n">>, <<" ", "j", "d", " ">> }

Init ==
    /\ jd_input = <<>>
    /\ resume_files = <<>>
    /\ pc = "idle"
    /\ i = 0
    /\ resume_text = <<>>
    /\ analysis = NoRecord
    /\ outcome = NoOutcome
    /\ all_analyses = <<>>
    /\ ranked_candidates = <<>>
    /\ rendered = FALSE
    /\ calls = <<>>
    /\ reads = <<>>
    /\ errors = <<>>
    /\ escaped = "none"

\* st.text_area (line 109).
TypeJobDescription(text) ==
    /\ pc = "idle"
    /\ jd_input # text
    /\ jd_input' = text
    /\ UNCHANGED <<resume_files, pc, i, resume_text, analysis, outcome,
                   all_analyses, ranked_candidates, rendered, calls, reads,
                   errors, escaped>>

\* st.file_uploader (lines 110-114): one more file.  A run uploads each of
\* the files above at most once.
UploadResume(file) ==
    /\ pc = "idle"
    /\ Len(resume_files) < MaxFiles
    /\ \A k \in 1..Len(resume_files) : resume_files[k] # file
    /\ resume_files' = Append(resume_files, file)
    /\ UNCHANGED <<jd_input, pc, i, resume_text, analysis, outcome,
                   all_analyses, ranked_candidates, rendered, calls, reads,
                   errors, escaped>>

\* The button and the validation (lines 116-124).
PressAnalyze ==
    /\ pc = "idle"
    /\ IF StripChars(jd_input) = <<>>
       THEN /\ errors' = Append(errors, [msg |-> "Please paste a job description."])
            /\ pc' = "invalid"
            /\ i' = i
       ELSE IF resume_files = <<>>
       THEN /\ errors' = Append(errors, [msg |-> "Please upload at least one resume."])
            /\ pc' = "invalid"
            /\ i' = i
       ELSE /\ errors' = errors
            /\ pc' = "loop"
            /\ i' = 1
    /\ UNCHANGED <<jd_input, resume_files, resume_text, analysis, outcome,
                   all_analyses, ranked_candidates, rendered, calls, reads,
                   escaped>>

\* Lines 126-131 and, for an empty text, 135: read and extract file i.
ExtractResume ==
    /\ pc = "loop"
    /\ i <= Len(resume_files)
    /\ LET file == resume_files[i]
           parsed == parse_resume(file.bytes, file.name)
       IN /\ reads' = Append(reads, i)
          /\ errors' = errors \o parsed.errors
          /\ resume_text' = parsed.text
          /\ IF parsed.text # <<>>
             THEN pc' = "analyze" /\ i' = i
             ELSE pc' = "loop" /\ i' = i + 1
    /\ UNCHANGED <<jd_input, resume_files, analysis, outcome, all_analyses,
                   ranked_candidates, rendered, calls, escaped>>

\* A mutant of AnalyzeResume: a call that ended in a fallback record is
\* issued again.
AnalyzeResumeRetrying(out) ==
    /\ pc = "analyze"
    /\ calls' = Append(calls, [file |-> i, prompt |-> BuildPrompt(jd_input, resume_text)])
    /\ outcome' = out
    /\ LET result == analyze_with_gemini(out)
       IN /\ errors' = errors \o result.errors
          /\ analysis' = result.value
          /\ escaped' = result.raised
          /\ pc' = IF result.raised # "none" THEN "aborted"
                   ELSE IF result.value.score = 0 THEN "analyze"
                   ELSE "append"
    /\ UNCHANGED <<jd_input, resume_files, i, resume_text, all_analyses,
                   ranked_candidates, rendered, reads>>

\* Line 132: the call of analyze_with_gemini, the service answering with out.
AnalyzeResume(out) ==
    /\ pc = "analyze"
    /\ calls' = Append(calls, [file |-> i, prompt |-> BuildPrompt(jd_input, resume_text)])
    /\ outcome' = out
    /\ LET result == analyze_with_gemini(out)
       IN /\ errors' = errors \o result.errors
          /\ analysis' = result.value
          /\ escaped' = result.raised
          /\ pc' = IF result.raised = "none" THEN "append" ELSE "aborted"
    /\ UNCHANGED <<jd_input, resume_files, i, resume_text, all_analyses,
                   ranked_candidates, rendered, reads>>

\* Lines 133-135: the record joins the results and the loop moves on.
AppendAnalysis ==
    /\ pc = "append"
    /\ all_analyses' = Append(all_analyses, analysis)
    /\ i' = i + 1
    /\ pc' = "loop"
    /\ analysis' = NoRecord
    /\ outcome' = NoOutcome
    /\ resume_text' = <<>>
    /\ UNCHANGED <<jd_input, resume_files, ranked_candidates, rendered, calls,
                   reads, errors, escaped>>

\* Lines 137-158: the loop is over; the results, if any, are sorted and
\* rendered.
FinishBatch ==
    /\ pc = "loop"
    /\ i > Len(resume_files)
    /\ pc' = "done"
    /\ IF all_analyses # <<>>
       THEN ranked_candidates' = Sorted(all_analyses) /\ rendered' = TRUE
       ELSE UNCHANGED <<ranked_candidates, rendered>>
    /\ UNCHANGED <<jd_input, resume_files, i, resume_text, analysis, outcome,
                   all_analyses, calls, reads, errors, escaped>>

Next ==
    \/ \E text \in JobDescriptions : TypeJobDescription(text)
    \/ \E k \in 1..Len(UploadableFiles) : UploadResume(UploadableFiles[k])
    \/ PressAnalyze
    \/ ExtractResume
    \/ \E k \in 1..Len(Outcomes) : AnalyzeResume(Outcomes[k])
    \/ AppendAnalysis
    \/ FinishBatch

Spec == Init /\ [][Next]_vars

(***************************************************************************)
(* Vocabulary of the properties, stated without the operators above        *)
(***************************************************************************)

\* The file's name ends in suffix, compared character by character.
NameEndsIn(file, suffix) ==
    /\ Len(file.name) >= Len(suffix)
    /\ \A k \in 1..Len(suffix) :
          file.name[Len(file.name) - Len(suffix) + k] = suffix[k]

\* The file is a readable pdf or docx (by its lower-case extension) whose
\* document holds text: its extraction is not the empty string.
HasText(file) ==
    /\ ~file.bytes.corrupt
    /\ \/ /\ \E p \in 1..Len(file.bytes.parts) : file.bytes.parts[p] # <<>>
          /\ \/ NameEndsIn(file, <<".", "p", "d", "f">>)
             \/ NameEndsIn(file, <<".", "d", "o", "c", "x">>)
       \/ /\ Len(file.bytes.parts) >= 2
          /\ NameEndsIn(file, <<".", "d", "o", "c", "x">>)

\* The uploaded resumes with text among the first n.
WithText(n) == { k \in 1..n : k <= Len(resume_files) /\ HasText(resume_files[k]) }

CalledFiles == { calls[c].file : c \in 1..Len(calls) }

Blank(chars) == \A k \in 1..Len(chars) : chars[k] \in {" ", "\n", "\t"}

\* The response is text holding exactly one JSON document, with nothing but
\* whitespace and code-fence markers around it.
JsonDocs(out) == SelectSeq(out.text, LAMBDA tok : "json" \in DOMAIN tok)
IsJsonText(out) ==
    /\ out.kind = "text"
    /\ Len(JsonDocs(out)) = 1
    /\ \A k \in 1..Len(out.text) :
          \/ "json" \in DOMAIN out.text[k]
          \/ out.text[k].c \in {" ", "\n", "\t", FenceJson, Fence}
DocOf(out) == JsonDocs(out)[1].json

HasTyped(doc, key, type) ==
    doc.t = "obj" /\ key \in DOMAIN doc.o /\ doc.o[key].t = type

\* The document satisfies the schema apart from its reasoning's type.
FieldsFit(doc) ==
    /\ HasTyped(doc, "candidate_name", "str")
    /\ HasTyped(doc, "score", "int")
    /\ doc.o["score"].n \in 0..100
    /\ HasTyped(doc, "summary", "str")
    /\ HasTyped(doc, "is_recommended", "bool")

SatisfiesSchema(doc) == FieldsFit(doc) /\ HasTyped(doc, "reasoning", "str")

\* The document fits but for a reasoning that is an object, which lines
\* 74-78 turn into a string.
FitsAfterNormalization(doc) == FieldsFit(doc) /\ HasTyped(doc, "reasoning", "obj")

Sentinel == <<[c |-> "Unknown/Error"]>>

\* analyze_with_gemini has returned for the current resume.
Returned == pc = "append"

(***************************************************************************)
(* Properties                                                              *)
(***************************************************************************)

\* C1: error isolation.  Whatever the model call or the parsing raises,
\* analyze_with_gemini returns a record: no exception leaves the handler, the
\* batch is never aborted, and a finished batch holds exactly one record for
\* each resume whose extracted text is non-empty.
C1_ErrorIsolation ==
    /\ escaped = "none"
    /\ pc # "aborted"
    /\ pc = "done" => Len(all_analyses) = Cardinality(WithText(Len(resume_files)))

\* The place of record j of the results in a stable descending order by score.
RankOf(j) ==
    1 + Cardinality({ m \in 1..Len(all_analyses) :
                        \/ all_analyses[m].score > all_analyses[j].score
                        \/ /\ all_analyses[m].score = all_analyses[j].score
                           /\ m < j })

\* C2: ranking.  After the batch the rendered sequence is the accumulated
\* results ordered by score descending, stable: the record at position j of
\* the results is rendered behind exactly the records with a higher score
\* and the records with the same score that came before it.
C2_StableRanking ==
    (pc = "done" /\ all_analyses # <<>>) =>
        /\ rendered
        /\ Len(ranked_candidates) = Len(all_analyses)
        /\ \A j \in 1..Len(all_analyses) :
              ranked_candidates[RankOf(j)] = all_analyses[j]

\* A finished batch of three whose ranking differs from the upload order and
\* holds two different records of equal, positive score.
C2_Witness ==
    /\ pc = "done" /\ rendered
    /\ Len(all_analyses) = 3
    /\ ranked_candidates # all_analyses
    /\ \E j, m \in 1..3 :
          /\ j < m
          /\ all_analyses[j].score = all_analyses[m].score
          /\ all_analyses[j] # all_analyses[m]
          /\ all_analyses[j].score > 0

\* C3: schema-failure fallback.  Whenever the response text is not valid JSON,
\* or its document lacks a required key or has a field that mismatches the
\* schema, the record returned is the fallback (name "Unknown/Error", score 0,
\* not recommended) and its reasoning contains the raw response text.
C3_SchemaFailureFallback ==
    (/\ Returned
     /\ outcome.kind = "text"
     /\ \/ ~IsJsonText(outcome)
        \/ /\ ~SatisfiesSchema(DocOf(outcome))
           /\ ~FitsAfterNormalization(DocOf(outcome))) =>
        /\ analysis.candidate_name = Sentinel
        /\ analysis.score = 0
        /\ analysis.is_recommended = FALSE
        /\ Contains(analysis.reasoning, outcome.text)

\* C4: empty-text skip.  A resume that has been read and whose extraction is
\* empty (wrong-case or foreign extension, unreadable document, document
\* without text) has no model call, the loop has moved past it, and the
\* results hold no record but those of the calls made, all for resumes with
\* text.
C4_EmptyTextSkipped ==
    /\ \A r \in 1..Len(reads) :
          ~HasText(resume_files[reads[r]]) =>
              /\ \A c \in 1..Len(calls) : calls[c].file # reads[r]
              /\ i > reads[r]
    /\ Len(all_analyses) <= Len(calls)
    /\ \A c \in 1..Len(calls) : HasText(resume_files[calls[c].file])

\* A finished batch: a wrong-case name, then an unreadable document, then a
\* resume that was analysed.
C4_Witness ==
    /\ pc = "done"
    /\ Len(resume_files) = 3
    /\ ~NameEndsIn(resume_files[1], <<".", "p", "d", "f">>)
    /\ ~NameEndsIn(resume_files[1], <<".", "d", "o", "c", "x">>)
    /\ resume_files[2].bytes.corrupt
    /\ CalledFiles = {3}
    /\ Len(all_analyses) = 1

\* C5: input validation gate.  Once Analyze is pressed with a blank job
\* description or without files, a validation error is shown and nothing is
\* processed: no file read, no model call, no record, nothing rendered.
C5_ValidationGate ==
    (pc # "idle" /\ (Blank(jd_input) \/ resume_files = <<>>)) =>
        /\ pc = "invalid"
        /\ Len(errors) = 1
        /\ errors[1].msg \in {"Please paste a job description.",
                              "Please upload at least one resume."}
        /\ reads = <<>>
        /\ calls = <<>>
        /\ all_analyses = <<>>
        /\ analysis = NoRecord
        /\ ranked_candidates = <<>>
        /\ ~rendered

\* Analyze was pressed with a whitespace-only job description and two files.
C5_Witness ==
    /\ pc = "invalid"
    /\ jd_input # <<>> /\ Blank(jd_input)
    /\ Len(resume_files) >= 2

\* C6: no local coupling of score and recommendation.  For a valid JSON
\* response that satisfies the schema the record returned carries the
\* response's name, score and is_recommended unchanged, also when
\* is_recommended contradicts the 70-point rule.
C6_NoCoupling ==
    (Returned /\ IsJsonText(outcome) /\ SatisfiesSchema(DocOf(outcome))) =>
        /\ analysis.candidate_name = DocOf(outcome).o["candidate_name"].s
        /\ analysis.score = DocOf(outcome).o["score"].n
        /\ analysis.is_recommended = DocOf(outcome).o["is_recommended"].b

\* A response with score 50 and is_recommended true was returned as such.
C6_Witness ==
    /\ Returned /\ IsJsonText(outcome) /\ SatisfiesSchema(DocOf(outcome))
    /\ analysis.score = 50
    /\ analysis.is_recommended = TRUE

\* The text of a sub-field of the reasoning object, "N/A" when it is missing.
SubField(doc, key) ==
    IF key \in DOMAIN doc.o["reasoning"].o
    THEN doc.o["reasoning"].o[key].s
    ELSE <<[c |-> "N/A"]>>

\* C7: reasoning normalization.  A reasoning that is an object becomes one
\* string: the Strengths heading, the object's Strengths text, the Gaps
\* heading, the object's Gaps text, in that order, with "N/A" for a sub-field
\* that is missing; a reasoning that is a string is left unchanged.
C7_ReasoningNormalized ==
    (Returned /\ IsJsonText(outcome) /\ FieldsFit(DocOf(outcome))) =>
        /\ HasTyped(DocOf(outcome), "reasoning", "obj") =>
              analysis.reasoning =
                  <<[c |-> "\n**Strengths:**\n"]>> \o SubField(DocOf(outcome), "Strengths")
                  \o <<[c |-> "\n\n**Gaps:**\n"]>> \o SubField(DocOf(outcome), "Gaps")
        /\ HasTyped(DocOf(outcome), "reasoning", "str") =>
              analysis.reasoning = DocOf(outcome).o["reasoning"].s

\* A reasoning object with Strengths and without Gaps was normalized.
C7_Witness ==
    /\ Returned /\ IsJsonText(outcome) /\ FieldsFit(DocOf(outcome))
    /\ HasTyped(DocOf(outcome), "reasoning", "obj")
    /\ DOMAIN DocOf(outcome).o["reasoning"].o = {"Strengths"}
    /\ Contains(analysis.reasoning, <<[c |-> "N/A"]>>)

\* Every record of the sequence has a score in 0..100.
ScoresInRange(records) ==
    \A k \in 1..Len(records) : records[k].score \in 0..100

\* C8: score range.  At every point of a run every record held (returned,
\* accumulated or rendered) has a score in 0..100, and a response whose score
\* is an integer outside that range has been replaced by the fallback record
\* with score 0.
C8_ScoreRange ==
    /\ ScoresInRange(all_analyses)
    /\ ScoresInRange(ranked_candidates)
    /\ analysis # NoRecord => analysis.score \in 0..100
    /\ (Returned /\ IsJsonText(outcome) /\ HasTyped(DocOf(outcome), "score", "int")
          /\ DocOf(outcome).o["score"].n \notin 0..100) =>
            /\ analysis.score = 0
            /\ analysis.candidate_name = Sentinel
            /\ analysis.is_recommended = FALSE

\* A response with score -1 came back as the fallback record, next to earlier
\* results.
C8_Witness ==
    /\ Returned /\ IsJsonText(outcome) /\ HasTyped(DocOf(outcome), "score", "int")
    /\ DocOf(outcome).o["score"].n = -1
    /\ analysis.score = 0
    /\ all_analyses # <<>>

\* C9 as claimed: every accumulated record has a non-empty candidate_name, and
\* a response whose candidate_name is the empty string takes the fallback path.
C9_NameNonEmpty ==
    /\ \A k \in 1..Len(all_analyses) : all_analyses[k].candidate_name # <<>>
    /\ (Returned /\ IsJsonText(outcome)
          /\ HasTyped(DocOf(outcome), "candidate_name", "str")
          /\ DocOf(outcome).o["candidate_name"].s = <<>>) =>
            analysis.candidate_name = Sentinel

\* The value is a text: a sequence of literal chunks.
IsText(s) == \A k \in 1..Len(s) : DOMAIN s[k] = {"c"}

\* C9 as amended: every accumulated record has a candidate_name that is text,
\* possibly empty: the schema does not constrain its length, so a response
\* that fits the schema with an empty candidate_name becomes a normal record
\* with the empty name and the response's score; a candidate_name that is
\* missing or null takes the fallback path, with the sentinel name.
C9_NameIsText ==
    /\ \A k \in 1..Len(all_analyses) : IsText(all_analyses[k].candidate_name)
    /\ (Returned /\ IsJsonText(outcome)
          /\ (SatisfiesSchema(DocOf(outcome)) \/ FitsAfterNormalization(DocOf(outcome)))
          /\ DocOf(outcome).o["candidate_name"].s = <<>>) =>
            /\ analysis.candidate_name = <<>>
            /\ analysis.score = DocOf(outcome).o["score"].n
    /\ (Returned /\ IsJsonText(outcome) /\ DocOf(outcome).t = "obj"
          /\ ~HasTyped(DocOf(outcome), "candidate_name", "str")) =>
            /\ analysis.candidate_name = Sentinel
            /\ analysis.score = 0

\* A finished batch whose results hold a record with the empty name, and a
\* rendered ranking that shows it.
C9_Witness ==
    /\ pc = "done" /\ rendered
    /\ \E k \in 1..Len(all_analyses) :
          all_analyses[k].candidate_name = <<>> /\ all_analyses[k].score > 0

\* C10: strictly sequential, single-shot processing.  Files are read one at a
\* time in upload order; calls are issued for resumes with text only, at most
\* one per resume and in upload order, each carrying that one resume; and
\* when the call for resume i exists, every earlier resume has finished its
\* cycle: it was read, and its record was appended if it has text.
C10_Sequential ==
    /\ reads = [k \in 1..Len(reads) |-> k]
    /\ \A c \in 1..Len(calls) :
          /\ calls[c].file \in 1..Len(reads)
          /\ calls[c].prompt.job_description = jd_input
          /\ calls[c].prompt.resume_text # <<>>
    /\ \A c \in 1..(Len(calls) - 1) : calls[c].file < calls[c + 1].file
    /\ pc \in {"idle", "invalid"} => calls = <<>>
    /\ pc \notin {"idle", "invalid"} =>
          LET finished == WithText(i - 1) IN
          /\ Len(reads) \in {i - 1, i}
          /\ Len(all_analyses) = Cardinality(finished)
          /\ CalledFiles = finished \cup (IF pc \in {"append", "aborted"} THEN {i} ELSE {})
          /\ pc \in {"append", "aborted"} => HasText(resume_files[i])

\* A finished batch of three whose second resume was skipped: two calls, for
\* the first and the third.
C10_Witness ==
    /\ pc = "done"
    /\ Len(calls) = 2
    /\ calls[1].file = 1 /\ calls[2].file = 3
    /\ Len(all_analyses) = 2

====
